---- MODULE Spec2Model ----
(***************************************************************************)
(* A model of caiso_last_hour.py: the fetch / reshape / merge pipeline     *)
(* that main() runs once.                                                  *)
(*                                                                         *)
(* Representation of pandas values:                                        *)
(*   - a raw table (the DataFrame read from the CSV) is a sequence of      *)
(*     records, one per CSV row, holding the columns the code reads;       *)
(*   - a processed table is [columns |-> set of column names,              *)
(*     rows |-> sequence of functions column name -> cell];                *)
(*   - a numeric cell is a rational [num, den]; den = 0 is NaN;            *)
(*   - a timestamp cell is [dtype, value]: dtype "object" is the CSV text, *)
(*     value being the digits HHMM of the text, and dtype "datetime64" is  *)
(*     the parsed value in minutes since midnight;                         *)
(*   - a text cell (NODE, hub) is a string, NaN_obj standing for a missing *)
(*     value in an object column.                                          *)
(***************************************************************************)
EXTENDS Integers, Sequences, FiniteSets, TLC

\* --------------------------------------------------------------------------
\* Cells
\* --------------------------------------------------------------------------

NaN == [num |-> 0, den |-> 0]

NaN_obj == "NaN"

Num(n) == [num |-> n, den |-> 1]

isna(c) == c.den = 0

Abs(n) == IF n < 0 THEN -n ELSE n

RECURSIVE Gcd(_, _)
Gcd(a, b) == IF b = 0 THEN a ELSE Gcd(b, a % b)

\* the rational s / n, n > 0, in lowest terms
Frac(s, n) == LET g == Gcd(Abs(s), n) IN [num |-> s \div g, den |-> n \div g]

\* float addition and subtraction: NaN is absorbing
Add(a, b) ==
    IF isna(a) \/ isna(b) THEN NaN
    ELSE Frac(a.num * b.den + b.num * a.den, a.den * b.den)

Sub(a, b) ==
    IF isna(a) \/ isna(b) THEN NaN
    ELSE Frac(a.num * b.den - b.num * a.den, a.den * b.den)

\* Series.sum(): NaN cells are skipped, the empty sum is 0
RECURSIVE SumSkipNa(_)
SumSkipNa(cells) ==
    IF cells = <<>> THEN Num(0)
    ELSE LET rest == SumSkipNa(Tail(cells))
         IN IF isna(Head(cells)) THEN rest ELSE Add(Head(cells), rest)

NotNa(c) == ~isna(c)

\* Series.mean(): NaN cells are skipped, the mean of nothing is NaN
MeanSkipNa(cells) ==
    LET vals == SelectSeq(cells, NotNa)
    IN IF vals = <<>> THEN NaN
       ELSE LET s == SumSkipNa(vals) IN Frac(s.num, s.den * Len(vals))

\* GroupBy.first(): the first non-null value, NaN when there is none
FirstNotNa(cells) ==
    LET vals == SelectSeq(cells, NotNa)
    IN IF vals = <<>> THEN NaN ELSE Head(vals)

Timestamp(minutes) == [dtype |-> "datetime64", value |-> minutes]

CsvTime(hhmm) == [dtype |-> "object", value |-> hhmm]

\* pd.to_datetime on one cell: the text HH:MM is parsed, a datetime is kept
to_datetime(cell) ==
    IF cell.dtype = "object"
    THEN Timestamp((cell.value \div 100) * 60 + (cell.value % 100))
    ELSE cell

\* df["INTERVALSTARTTIME_GMT"] = pd.to_datetime(df["INTERVALSTARTTIME_GMT"]):
\* the column of the DataFrame object passed in is replaced in place
assign_to_datetime(df) ==
    [i \in DOMAIN df |->
        [df[i] EXCEPT !.INTERVALSTARTTIME_GMT = to_datetime(@)]]

\* --------------------------------------------------------------------------
\* Generic table helpers
\* --------------------------------------------------------------------------

NoTable == [columns |-> {}, rows |-> <<>>]

NoRaw == <<>>

\* the elements of S in increasing order of rank, a one-to-one function from
\* S to the integers
RECURSIVE SortSet(_, _)
SortSet(S, rank) ==
    IF S = {} THEN <<>>
    ELSE LET m == CHOOSE x \in S : \A y \in S : rank[x] <= rank[y]
         IN <<m>> \o SortSet(S \ {m}, rank)

\* stable sort of the sequence s by ranks, ranks[i] being the sort key of
\* s[i]: rows of equal key keep their order
StableSort(s, ranks) ==
    LET n == Len(s)
        order == SortSet(DOMAIN s, [i \in DOMAIN s |-> ranks[i] * (n + 1) + i])
    IN [i \in DOMAIN s |-> s[order[i]]]

Range(s) == {s[i] : i \in DOMAIN s}

\* DataFrame.rename(columns=f), f giving the new name of each column
rename_columns(t, f) ==
    LET cols == {f[c] : c \in t.columns}
        old(c2) == CHOOSE c \in t.columns : f[c] = c2
    IN [columns |-> cols,
        rows |-> [i \in DOMAIN t.rows |-> [c2 \in cols |-> t.rows[i][old(c2)]]]]

\* DataFrame.get(col, 0) for one row: the cell, or the scalar 0 when the table
\* has no such column
get(t, row, col) == IF col \in t.columns THEN row[col] ELSE Num(0)

\* --------------------------------------------------------------------------
\* Configuration
\* --------------------------------------------------------------------------

CONFIG_nodes ==
    [n \in {"TH_SP15_GEN-APND", "TH_NP15_GEN-APND", "TH_ZP26_GEN-APND"} |->
        CASE n = "TH_SP15_GEN-APND" -> "SP15"
          [] n = "TH_NP15_GEN-APND" -> "NP15"
          [] n = "TH_ZP26_GEN-APND" -> "ZP26"]

lookback_minutes == 70

\* --------------------------------------------------------------------------
\* LMP processing
\* --------------------------------------------------------------------------

\* lexicographic rank of the NODE identifiers the feeds carry
NodeRank(n) ==
    CASE n = "DLAP_PGAE-APND" -> 1
      [] n = "TH_NP15_GEN-APND" -> 2
      [] n = "TH_SP15_GEN-APND" -> 3
      [] n = "TH_ZP26_GEN-APND" -> 4
      [] OTHER -> 5

\* lexicographic rank of the hub labels; NaN sorts last (na_position="last")
HubRank(h) ==
    CASE h = "NP15" -> 1
      [] h = "SP15" -> 2
      [] h = "ZP26" -> 3
      [] OTHER -> 4

\* df.pivot_table(index=[INTERVALSTARTTIME_GMT, NODE], columns=LMP_TYPE,
\*                values=MW, aggfunc="first").reset_index()
\* groups whose first value is NaN are dropped (dropna=True), so a row or a
\* column exists only for a key or a category that has a value
pivot_table_first(df) ==
    LET HasValue(r) == ~isna(r.MW) /\ r.NODE # NaN_obj
        src == SelectSeq(df, HasValue)
        keys == {<<r.INTERVALSTARTTIME_GMT, r.NODE>> : r \in Range(src)}
        cats == {r.LMP_TYPE : r \in Range(src)}
        order == SortSet(keys, [k \in keys |-> k[1].value * 10 + NodeRank(k[2])])
        cell(k, c) ==
            LET Match(r) == /\ r.INTERVALSTARTTIME_GMT = k[1]
                            /\ r.NODE = k[2]
                            /\ r.LMP_TYPE = c
                grp == SelectSeq(src, Match)
            IN FirstNotNa([i \in DOMAIN grp |-> grp[i].MW])
        cols == {"INTERVALSTARTTIME_GMT", "NODE"} \cup cats
    IN [columns |-> cols,
        rows |-> [i \in DOMAIN order |->
                    [c \in cols |->
                        IF c = "INTERVALSTARTTIME_GMT" THEN order[i][1]
                        ELSE IF c = "NODE" THEN order[i][2]
                        ELSE cell(order[i], c)]]]

LmpRename(c) ==
    CASE c = "INTERVALSTARTTIME_GMT" -> "timestamp_utc"
      [] c = "NODE" -> "hub"
      [] c = "LMP" -> "lmp_total"
      [] c = "MCC" -> "congestion"
      [] c = "MCE" -> "energy"
      [] c = "MCL" -> "loss"
      [] OTHER -> c

\* Series.map(CONFIG["nodes"]) on one cell: a key of the dict gives its value,
\* anything else gives NaN
map_nodes(node) ==
    IF node \in DOMAIN CONFIG_nodes THEN CONFIG_nodes[node] ELSE NaN_obj

\* df.sort_values(["timestamp_utc", "hub"]).reset_index(drop=True)
sort_by_time_hub(t) ==
    [t EXCEPT !.rows =
        StableSort(@, [i \in DOMAIN @ |->
                          @[i]["timestamp_utc"].value * 10 + HubRank(@[i]["hub"])])]

process_lmp_data(df, start_time) ==
    LET conv == assign_to_datetime(df)
        InWindow(r) == r.INTERVALSTARTTIME_GMT.value >= start_time.value
        flt == SelectSeq(conv, InWindow)
        piv == pivot_table_first(flt)
        wide == rename_columns(piv, [c \in piv.columns |-> LmpRename(c)])
        hubs == [wide EXCEPT !.rows =
                    [i \in DOMAIN @ |-> [@[i] EXCEPT !["hub"] = map_nodes(@)]]]
    IN sort_by_time_hub(hubs)

\* --------------------------------------------------------------------------
\* Generation processing
\* --------------------------------------------------------------------------

\* the sort key of each timestamp of a set
TimeRank(times) == [t \in times |-> t.value]

\* df[name] = cells, one cell per row
set_column(t, name, cells) ==
    LET cols == t.columns \cup {name}
    IN [columns |-> cols,
        rows |-> [i \in DOMAIN t.rows |->
                    [c \in cols |-> IF c = name THEN cells[i] ELSE t.rows[i][c]]]]

\* DataFrame.fillna(0): every NaN cell becomes 0 (the timestamps hold no NaT)
fillna0(t, key) ==
    [t EXCEPT !.rows =
        [i \in DOMAIN @ |->
            [c \in t.columns |->
                IF c # key /\ isna(@[i][c]) THEN Num(0) ELSE @[i][c]]]]

\* groupby([INTERVALSTARTTIME_GMT, RENEWABLE_TYPE])["MW"].sum() followed by
\* pivot(index=INTERVALSTARTTIME_GMT, columns=RENEWABLE_TYPE, values="MW"):
\* a (time, type) pair with no row in df is a NaN cell
groupby_sum_pivot(df) ==
    LET groups == {<<r.INTERVALSTARTTIME_GMT, r.RENEWABLE_TYPE>> : r \in Range(df)}
        times == {g[1] : g \in groups}
        types == {g[2] : g \in groups}
        order == SortSet(times, TimeRank(times))
        total(t, c) ==
            LET Match(r) == r.INTERVALSTARTTIME_GMT = t /\ r.RENEWABLE_TYPE = c
                grp == SelectSeq(df, Match)
            IN SumSkipNa([i \in DOMAIN grp |-> grp[i].MW])
        cols == {"INTERVALSTARTTIME_GMT"} \cup types
    IN [columns |-> cols,
        rows |-> [i \in DOMAIN order |->
                    [c \in cols |->
                        IF c = "INTERVALSTARTTIME_GMT" THEN order[i]
                        ELSE IF <<order[i], c>> \in groups THEN total(order[i], c)
                        ELSE NaN]]]

\* df_agg["renewables_total"] = df_agg.get("Solar", 0) + df_agg.get("Wind", 0)
add_renewables_total(t) ==
    set_column(t, "renewables_total",
               [i \in DOMAIN t.rows |->
                   Add(get(t, t.rows[i], "Solar"), get(t, t.rows[i], "Wind"))])

process_renewable_data(df, start_time) ==
    LET conv == assign_to_datetime(df)
        Keep(r) == /\ r.INTERVALSTARTTIME_GMT.value >= start_time.value
                   /\ r.MARKET_RUN_ID = "RTD"
        flt == SelectSeq(conv, Keep)
        df_agg == groupby_sum_pivot(flt)
    IN fillna0(add_renewables_total(df_agg), "INTERVALSTARTTIME_GMT")

TotalRename(c) == IF c = "MW" THEN "total_generation" ELSE c

process_total_generation_data(df, start_time) ==
    LET conv == assign_to_datetime(df)
        Keep(r) == /\ r.INTERVALSTARTTIME_GMT.value >= start_time.value
                   /\ r.TAC_ZONE_NAME = "Caiso_Totals"
                   /\ r.SLRS_TYPE = "ALL"
        flt == SelectSeq(conv, Keep)
        times == {r.INTERVALSTARTTIME_GMT : r \in Range(flt)}
        order == SortSet(times, TimeRank(times))
        total(t) ==
            LET Match(r) == r.INTERVALSTARTTIME_GMT = t
                grp == SelectSeq(flt, Match)
            IN SumSkipNa([i \in DOMAIN grp |-> grp[i].MW])
        df_agg == [columns |-> {"INTERVALSTARTTIME_GMT", "MW"},
                   rows |-> [i \in DOMAIN order |->
                               [c \in {"INTERVALSTARTTIME_GMT", "MW"} |->
                                   IF c = "MW" THEN total(order[i]) ELSE order[i]]]]
    IN rename_columns(df_agg, [c \in df_agg.columns |-> TotalRename(c)])

\* --------------------------------------------------------------------------
\* Joins
\* --------------------------------------------------------------------------

\* left.merge(right, on=key, how=how), how in {"inner", "outer"}: one output
\* row per pair of rows with equal keys, plus (outer) one per unmatched row
\* with NaN in the other side's columns; a non-key column name the two sides
\* share gets the default suffixes _x and _y; the rows come out in key order
merge(left, right, key, how) ==
    LET shared == (left.columns \cap right.columns) \ {key}
        lname(c) == IF c \in shared THEN c \o "_x" ELSE c
        rname(c) == IF c \in shared THEN c \o "_y" ELSE c
        lcols == {lname(c) : c \in left.columns \ {key}}
        rcols == {rname(c) : c \in right.columns \ {key}}
        cols == {key} \cup lcols \cup rcols
        L == DOMAIN left.rows
        R == DOMAIN right.rows
        matched == {p \in L \X R : left.rows[p[1]][key] = right.rows[p[2]][key]}
        lonly == {<<i, 0>> : i \in {i \in L : \A j \in R : <<i, j>> \notin matched}}
        ronly == {<<0, j>> : j \in {j \in R : \A i \in L : <<i, j>> \notin matched}}
        pairs == IF how = "outer" THEN matched \cup lonly \cup ronly ELSE matched
        keyOf(p) == IF p[1] # 0 THEN left.rows[p[1]][key] ELSE right.rows[p[2]][key]
        rank == [p \in pairs |->
                    (keyOf(p).value * (Len(left.rows) + 1) + p[1])
                        * (Len(right.rows) + 1) + p[2]]
        order == SortSet(pairs, rank)
        lsrc(c2) == CHOOSE c \in left.columns \ {key} : lname(c) = c2
        rsrc(c2) == CHOOSE c \in right.columns \ {key} : rname(c) = c2
        cell(p, c2) ==
            IF c2 = key THEN keyOf(p)
            ELSE IF c2 \in lcols
                 THEN IF p[1] # 0 THEN left.rows[p[1]][lsrc(c2)] ELSE NaN
                 ELSE IF p[2] # 0 THEN right.rows[p[2]][rsrc(c2)] ELSE NaN
    IN [columns |-> cols,
        rows |-> [i \in DOMAIN order |-> [c2 \in cols |-> cell(order[i], c2)]]]

GenRename(c) == IF c = "INTERVALSTARTTIME_GMT" THEN "timestamp_utc" ELSE c

\* df_merged["thermal_and_other"] =
\*     df_merged.get("total_generation", 0) - df_merged.get("renewables_total", 0)
add_thermal_and_other(t) ==
    set_column(t, "thermal_and_other",
               [i \in DOMAIN t.rows |->
                   Sub(get(t, t.rows[i], "total_generation"),
                       get(t, t.rows[i], "renewables_total"))])

\* merge_generation_data with how="inner" in place of how="outer"
merge_generation_data_inner(df_renewable, df_total) ==
    LET df_merged == merge(df_renewable, df_total, "INTERVALSTARTTIME_GMT", "inner")
    IN add_thermal_and_other(
           rename_columns(df_merged, [c \in df_merged.columns |-> GenRename(c)]))

merge_generation_data(df_renewable, df_total) ==
    LET df_merged == merge(df_renewable, df_total, "INTERVALSTARTTIME_GMT", "outer")
    IN add_thermal_and_other(
           rename_columns(df_merged, [c \in df_merged.columns |-> GenRename(c)]))

LmpAggColumns == {"timestamp_utc", "lmp_total", "congestion", "energy", "loss"}

\* df_lmp[[...]].groupby("timestamp_utc").mean().reset_index()
\* defined when df_lmp has every column of LmpAggColumns
groupby_mean(df_lmp) ==
    LET times == {df_lmp.rows[i]["timestamp_utc"] : i \in DOMAIN df_lmp.rows}
        order == SortSet(times, TimeRank(times))
        mean(t, c) ==
            LET Match(r) == r["timestamp_utc"] = t
                grp == SelectSeq(df_lmp.rows, Match)
            IN MeanSkipNa([i \in DOMAIN grp |-> grp[i][c]])
    IN [columns |-> LmpAggColumns,
        rows |-> [i \in DOMAIN order |->
                    [c \in LmpAggColumns |->
                        IF c = "timestamp_utc" THEN order[i]
                        ELSE mean(order[i], c)]]]

\* df.sort_values("timestamp_utc").reset_index(drop=True)
sort_by_time(t) ==
    [t EXCEPT !.rows = StableSort(@, [i \in DOMAIN @ |-> @[i]["timestamp_utc"].value])]

CombinedRename(c) == IF c = "timestamp_utc" THEN "timestamp_utc_interval" ELSE c

\* merge_lmp_with_generation with how="outer" in place of how="inner"
merge_lmp_with_generation_outer(df_lmp, df_generation) ==
    IF ~(LmpAggColumns \subseteq df_lmp.columns)
    THEN [raised |-> "KeyError", df_combined |-> NoTable, df_lmp_agg |-> NoTable]
    ELSE LET df_lmp_agg == groupby_mean(df_lmp)
             joined == merge(df_lmp_agg, df_generation, "timestamp_utc", "outer")
             sorted == sort_by_time(joined)
         IN [raised |-> "",
             df_combined |->
                 rename_columns(sorted, [c \in sorted.columns |-> CombinedRename(c)]),
             df_lmp_agg |-> df_lmp_agg]

\* the outcome of a call: raised = "" and the returned tables, or the name of
\* the exception raised (the column selection raises KeyError when df_lmp
\* lacks one of the columns it names)
merge_lmp_with_generation(df_lmp, df_generation) ==
    IF ~(LmpAggColumns \subseteq df_lmp.columns)
    THEN [raised |-> "KeyError", df_combined |-> NoTable, df_lmp_agg |-> NoTable]
    ELSE LET df_lmp_agg == groupby_mean(df_lmp)
             joined == merge(df_lmp_agg, df_generation, "timestamp_utc", "inner")
             sorted == sort_by_time(joined)
         IN [raised |-> "",
             df_combined |->
                 rename_columns(sorted, [c \in sorted.columns |-> CombinedRename(c)]),
             df_lmp_agg |-> df_lmp_agg]

\* --------------------------------------------------------------------------
\* Fetch
\* --------------------------------------------------------------------------

\* What requests.get can do: fail in transport, or answer with a status and a
\* ZIP archive of `entries` files whose first file is the CSV `csv`.
HttpResponse(status, entries, csv) ==
    [transport |-> "ok", status |-> status, entries |-> entries, csv |-> csv]

TransportFailure ==
    [transport |-> "RequestException", status |-> 0, entries |-> 0, csv |-> <<>>]

\* the outcome of fetch_oasis_data: the DataFrame, or the exception it raises
\* (each is logged and re-raised by the function's own handlers)
fetch_oasis_data(response) ==
    IF response.transport # "ok"
    THEN [raised |-> "RequestException", df |-> NoRaw]
    ELSE IF response.status # 200
    THEN [raised |-> "OASIS API error", df |-> NoRaw]
    ELSE IF response.entries = 0
    THEN [raised |-> "ZIP file is empty", df |-> NoRaw]
    ELSE IF response.csv = <<>>
    THEN [raised |-> "Downloaded data is empty", df |-> NoRaw]
    ELSE [raised |-> "", df |-> response.csv]

\* --------------------------------------------------------------------------
\* Inputs: the feeds the service may answer with
\* --------------------------------------------------------------------------

MaxLmpKeys == 2

MaxRenRows == 2

MaxTotRows == 2

\* the nondecreasing index sequences of length 1..maxLen over 1..k: one
\* sequence of rows per multiset of rows
IndexSeqs(k, maxLen) ==
    UNION {{s \in [1..n -> 1..k] : \A i \in 1..(n - 1) : s[i] <= s[i + 1]} :
             n \in 1..maxLen}

LmpTypes == <<"LMP", "MCC", "MCE", "MCL">>

\* (interval start as CSV text, NODE) of the rows a feed may hold; 09:55 lies
\* before the window of every run, DLAP_PGAE-APND is no key of
\* CONFIG["nodes"]
LmpKeys ==
    << <<1000, "TH_SP15_GEN-APND">>, <<1000, "TH_NP15_GEN-APND">>,
       <<1005, "DLAP_PGAE-APND">>,   <<955, "TH_SP15_GEN-APND">> >>

LmpValue(type, node) ==
    (CASE type = "LMP" -> 40 [] type = "MCC" -> 5 [] type = "MCE" -> 34 [] OTHER -> 1)
    + NodeRank(node)

\* one row per key and category, the categories of `missing` left out
LmpFeed(keys, missing) ==
    LET RECURSIVE rowsOf(_, _)
        rowsOf(k, t) ==
            IF t > Len(LmpTypes) THEN <<>>
            ELSE (IF LmpTypes[t] \in missing THEN <<>>
                  ELSE << [INTERVALSTARTTIME_GMT |-> CsvTime(LmpKeys[k][1]),
                           NODE |-> LmpKeys[k][2],
                           LMP_TYPE |-> LmpTypes[t],
                           MW |-> Num(LmpValue(LmpTypes[t], LmpKeys[k][2]))] >>)
                 \o rowsOf(k, t + 1)
        RECURSIVE all(_)
        all(i) == IF i > Len(keys) THEN <<>> ELSE rowsOf(keys[i], 1) \o all(i + 1)
    IN all(1)

LmpFeeds ==
    {LmpFeed(keys, missing) :
        keys \in {s \in IndexSeqs(Len(LmpKeys), MaxLmpKeys) :
                    \A i \in 1..(Len(s) - 1) : s[i] < s[i + 1]},
        missing \in {{}} \cup {{LmpTypes[t]} : t \in DOMAIN LmpTypes}}

RenRow(hhmm, type, run, mw) ==
    [INTERVALSTARTTIME_GMT |-> CsvTime(hhmm), RENEWABLE_TYPE |-> type,
     MARKET_RUN_ID |-> run, MW |-> Num(mw)]

RenRows ==
    << RenRow(1000, "Solar", "RTD", 5), RenRow(1000, "Wind", "RTD", 3),
       RenRow(1005, "Wind", "RTD", 4),  RenRow(1000, "total_generation", "RTD", 7),
       RenRow(1000, "Solar", "DAM", 9), RenRow(955, "Solar", "RTD", 2) >>

RenewableFeeds ==
    {[i \in DOMAIN s |-> RenRows[s[i]]] : s \in IndexSeqs(Len(RenRows), MaxRenRows)}

TotRow(hhmm, zone, type, mw) ==
    [INTERVALSTARTTIME_GMT |-> CsvTime(hhmm), TAC_ZONE_NAME |-> zone,
     SLRS_TYPE |-> type, MW |-> Num(mw)]

TotRows ==
    << TotRow(1000, "Caiso_Totals", "ALL", 12), TotRow(1005, "Caiso_Totals", "ALL", 10),
       TotRow(1010, "Caiso_Totals", "ALL", 11), TotRow(1005, "PGAE-TAC", "ALL", 6) >>

TotalFeeds ==
    {[i \in DOMAIN s |-> TotRows[s[i]]] : s \in IndexSeqs(Len(TotRows), MaxTotRows)}

\* the answers to one request: the four failures and every feed
Responses(feeds) ==
    {TransportFailure, HttpResponse(503, 0, <<>>), HttpResponse(200, 0, <<>>),
     HttpResponse(200, 1, <<>>)}
    \cup {HttpResponse(200, 1, f) : f \in feeds}

\* the wall clock of a run, in minutes since midnight
NowChoices == {11 * 60 + 10, 11 * 60 + 15}

\* --------------------------------------------------------------------------
\* main
\* --------------------------------------------------------------------------

VARIABLES
    pc,                 \* the statement of main that runs next
    start_time,         \* get_time_window's start_time
    df_lmp_raw, df_lmp,
    df_renewable_raw, df_renewable,
    df_total_raw, df_total,
    df_generation, df_combined, df_lmp_agg,
    files,              \* what save_results wrote
    error,              \* the exception that left main, "" when none
    log,                \* the calls main made so far, with their outcome
    fetched             \* the raw tables as fetch returned them

vars == <<pc, start_time, df_lmp_raw, df_lmp, df_renewable_raw, df_renewable,
          df_total_raw, df_total, df_generation, df_combined, df_lmp_agg,
          files, error, log, fetched>>

NoFiles == [combined |-> NoTable, lmp |-> NoTable, written |-> FALSE]

Init ==
    /\ pc = "get_time_window"
    /\ start_time = Timestamp(0)
    /\ df_lmp_raw = NoRaw /\ df_lmp = NoTable
    /\ df_renewable_raw = NoRaw /\ df_renewable = NoTable
    /\ df_total_raw = NoRaw /\ df_total = NoTable
    /\ df_generation = NoTable /\ df_combined = NoTable /\ df_lmp_agg = NoTable
    /\ files = NoFiles
    /\ error = ""
    /\ log = <<>>
    /\ fetched = [lmp |-> NoRaw, renewable |-> NoRaw, total |-> NoRaw]

\* main with an except clause that swallows the exception
after_call_swallow(raised, next) == next

\* main's try / except: an exception raised by a call is logged and re-raised,
\* so main ends; otherwise the next statement runs
after_call(raised, next) == IF raised # "" THEN "raised" ELSE next

Logged(step, raised) == Append(log, [step |-> step, raised |-> raised])

get_time_window ==
    /\ pc = "get_time_window"
    /\ \E now \in NowChoices : start_time' = Timestamp(now - lookback_minutes)
    /\ pc' = "fetch_lmp_data"
    /\ log' = Logged("get_time_window", "")
    /\ UNCHANGED <<df_lmp_raw, df_lmp, df_renewable_raw, df_renewable, df_total_raw,
                   df_total, df_generation, df_combined, df_lmp_agg, files, error,
                   fetched>>

fetch_lmp_data ==
    /\ pc = "fetch_lmp_data"
    /\ \E response \in Responses(LmpFeeds) :
         LET res == fetch_oasis_data(response)
         IN /\ df_lmp_raw' = res.df
            /\ fetched' = [fetched EXCEPT !.lmp = res.df]
            /\ error' = res.raised
            /\ pc' = after_call(res.raised, "process_lmp_data")
            /\ log' = Logged("fetch_lmp_data", res.raised)
    /\ UNCHANGED <<start_time, df_lmp, df_renewable_raw, df_renewable, df_total_raw,
                   df_total, df_generation, df_combined, df_lmp_agg, files>>

process_lmp ==
    /\ pc = "process_lmp_data"
    /\ df_lmp' = process_lmp_data(df_lmp_raw, start_time)
    /\ df_lmp_raw' = assign_to_datetime(df_lmp_raw)
    /\ pc' = "fetch_renewable_data"
    /\ log' = Logged("process_lmp_data", "")
    /\ UNCHANGED <<start_time, df_renewable_raw, df_renewable, df_total_raw, df_total,
                   df_generation, df_combined, df_lmp_agg, files, error, fetched>>

fetch_renewable_data ==
    /\ pc = "fetch_renewable_data"
    /\ \E response \in Responses(RenewableFeeds) :
         LET res == fetch_oasis_data(response)
         IN /\ df_renewable_raw' = res.df
            /\ fetched' = [fetched EXCEPT !.renewable = res.df]
            /\ error' = res.raised
            /\ pc' = after_call(res.raised, "process_renewable_data")
            /\ log' = Logged("fetch_renewable_data", res.raised)
    /\ UNCHANGED <<start_time, df_lmp_raw, df_lmp, df_renewable, df_total_raw, df_total,
                   df_generation, df_combined, df_lmp_agg, files>>

process_renewable ==
    /\ pc = "process_renewable_data"
    /\ df_renewable' = process_renewable_data(df_renewable_raw, start_time)
    /\ df_renewable_raw' = assign_to_datetime(df_renewable_raw)
    /\ pc' = "fetch_total_generation_data"
    /\ log' = Logged("process_renewable_data", "")
    /\ UNCHANGED <<start_time, df_lmp_raw, df_lmp, df_total_raw, df_total,
                   df_generation, df_combined, df_lmp_agg, files, error, fetched>>

fetch_total_generation_data ==
    /\ pc = "fetch_total_generation_data"
    /\ \E response \in Responses(TotalFeeds) :
         LET res == fetch_oasis_data(response)
         IN /\ df_total_raw' = res.df
            /\ fetched' = [fetched EXCEPT !.total = res.df]
            /\ error' = res.raised
            /\ pc' = after_call(res.raised, "process_total_generation_data")
            /\ log' = Logged("fetch_total_generation_data", res.raised)
    /\ UNCHANGED <<start_time, df_lmp_raw, df_lmp, df_renewable_raw, df_renewable,
                   df_total, df_generation, df_combined, df_lmp_agg, files>>

process_total_generation ==
    /\ pc = "process_total_generation_data"
    /\ df_total' = process_total_generation_data(df_total_raw, start_time)
    /\ df_total_raw' = assign_to_datetime(df_total_raw)
    /\ pc' = "merge_generation_data"
    /\ log' = Logged("process_total_generation_data", "")
    /\ UNCHANGED <<start_time, df_lmp_raw, df_lmp, df_renewable_raw, df_renewable,
                   df_generation, df_combined, df_lmp_agg, files, error, fetched>>

merge_generation ==
    /\ pc = "merge_generation_data"
    /\ df_generation' = merge_generation_data(df_renewable, df_total)
    /\ pc' = "merge_lmp_with_generation"
    /\ log' = Logged("merge_generation_data", "")
    /\ UNCHANGED <<start_time, df_lmp_raw, df_lmp, df_renewable_raw, df_renewable,
                   df_total_raw, df_total, df_combined, df_lmp_agg, files, error,
                   fetched>>

merge_lmp ==
    /\ pc = "merge_lmp_with_generation"
    /\ LET res == merge_lmp_with_generation(df_lmp, df_generation)
       IN /\ df_combined' = res.df_combined
          /\ df_lmp_agg' = res.df_lmp_agg
          /\ error' = res.raised
          /\ pc' = after_call(res.raised, "save_results")
          /\ log' = Logged("merge_lmp_with_generation", res.raised)
    /\ UNCHANGED <<start_time, df_lmp_raw, df_lmp, df_renewable_raw, df_renewable,
                   df_total_raw, df_total, df_generation, files, fetched>>

save_results ==
    /\ pc = "save_results"
    /\ files' = [combined |-> df_combined, lmp |-> df_lmp, written |-> TRUE]
    /\ pc' = "print_results"
    /\ log' = Logged("save_results", "")
    /\ UNCHANGED <<start_time, df_lmp_raw, df_lmp, df_renewable_raw, df_renewable,
                   df_total_raw, df_total, df_generation, df_combined, df_lmp_agg,
                   error, fetched>>

print_results ==
    /\ pc = "print_results"
    /\ pc' = "done"
    /\ log' = Logged("print_results", "")
    /\ UNCHANGED <<start_time, df_lmp_raw, df_lmp, df_renewable_raw, df_renewable,
                   df_total_raw, df_total, df_generation, df_combined, df_lmp_agg,
                   files, error, fetched>>

Next ==
    \/ get_time_window
    \/ fetch_lmp_data
    \/ process_lmp
    \/ fetch_renewable_data
    \/ process_renewable
    \/ fetch_total_generation_data
    \/ process_total_generation
    \/ merge_generation
    \/ merge_lmp
    \/ save_results
    \/ print_results

Spec == Init /\ [][Next]_vars

\* --------------------------------------------------------------------------
\* Properties
\* --------------------------------------------------------------------------

Ran(step) == \E i \in DOMAIN log : log[i].step = step

Returned(step) == \E i \in DOMAIN log : log[i].step = step /\ log[i].raised = ""

\* the timestamps of a table's rows
Times(t, key) == {t.rows[i][key] : i \in DOMAIN t.rows}

\* exactly one row per timestamp of S, and no other row
OneRowPer(t, key, S) == Times(t, key) = S /\ Len(t.rows) = Cardinality(S)

RenewableTimes == Times(df_renewable, "INTERVALSTARTTIME_GMT")

TotalTimes == Times(df_total, "INTERVALSTARTTIME_GMT")

GenerationTimes == Times(df_generation, "timestamp_utc")

LmpAggTimes == Times(df_lmp_agg, "timestamp_utc")

\* C1: the generation table has exactly one row per timestamp of the union of
\* the renewable and total-generation timestamps, and the merged output that
\* merge_lmp_with_generation returns has exactly one row per timestamp present
\* in both the hub-averaged LMP table and the generation table.
C1_JoinKeySets ==
    /\ Returned("merge_generation_data") =>
          OneRowPer(df_generation, "timestamp_utc", RenewableTimes \cup TotalTimes)
    /\ Returned("merge_lmp_with_generation") =>
          /\ LmpAggTimes = Times(df_lmp, "timestamp_utc")
          /\ OneRowPer(df_lmp_agg, "timestamp_utc", LmpAggTimes)
          /\ OneRowPer(df_combined, "timestamp_utc_interval",
                       LmpAggTimes \cap GenerationTimes)

\* a run in which the union is larger than either generation input and the
\* inner join keeps some timestamps of the generation table and drops others
C1_Witness ==
    /\ pc = "done"
    /\ RenewableTimes \ TotalTimes # {}
    /\ TotalTimes \ RenewableTimes # {}
    /\ LmpAggTimes \cap GenerationTimes # {}
    /\ GenerationTimes \ LmpAggTimes # {}

\* C2: after the outer join of merge_generation_data every non-key cell of
\* every row is a number, never null.
C2_OuterJoinZeroFilled ==
    Returned("merge_generation_data") =>
        \A i \in DOMAIN df_generation.rows :
            \A c \in df_generation.columns \ {"timestamp_utc"} :
                ~isna(df_generation.rows[i][c])

\* the rows of the fetched renewable feed that survive the filters
RenewableSurvivors ==
    LET Keep(r) == /\ to_datetime(r.INTERVALSTARTTIME_GMT).value >= start_time.value
                   /\ r.MARKET_RUN_ID = "RTD"
    IN SelectSeq(fetched.renewable, Keep)

\* the sum of MW of the surviving rows of one type at one timestamp
SurvivingMW(t, type) ==
    LET Match(r) == to_datetime(r.INTERVALSTARTTIME_GMT) = t /\ r.RENEWABLE_TYPE = type
        grp == SelectSeq(RenewableSurvivors, Match)
    IN SumSkipNa([i \in DOMAIN grp |-> grp[i].MW])

\* C3: in every row process_renewable_data produces, renewables_total is the
\* surviving Solar MW plus the surviving Wind MW at that timestamp, a category
\* with no surviving row at the timestamp counting as zero.
C3_RenewablesTotal ==
    Returned("process_renewable_data") =>
        \A i \in DOMAIN df_renewable.rows :
            LET row == df_renewable.rows[i]
                t == row["INTERVALSTARTTIME_GMT"]
            IN row["renewables_total"] = Add(SurvivingMW(t, "Solar"), SurvivingMW(t, "Wind"))

\* an absent or null operand counts as zero
OrZero(t, row, col) ==
    IF col \notin t.columns \/ isna(row[col]) THEN Num(0) ELSE row[col]

\* C4: in every row of the generation table thermal_and_other is a number,
\* total_generation minus renewables_total with an absent operand as zero.
C4_ResidualTotal ==
    Returned("merge_generation_data") =>
        \A i \in DOMAIN df_generation.rows :
            LET row == df_generation.rows[i]
            IN /\ ~isna(row["thermal_and_other"])
               /\ row["thermal_and_other"] =
                     Sub(OrZero(df_generation, row, "total_generation"),
                         OrZero(df_generation, row, "renewables_total"))

\* the rows of the fetched LMP feed that survive the time filter
LmpSurvivors ==
    LET Keep(r) == to_datetime(r.INTERVALSTARTTIME_GMT).value >= start_time.value
    IN SelectSeq(fetched.lmp, Keep)

\* C5: every surviving (timestamp, NODE) has a row in the processed LMP table
\* whose hub is the configured label of the NODE, or the NODE itself when
\* CONFIG["nodes"] has no label for it; no hub is null.
C5_HubLabels ==
    Returned("process_lmp_data") =>
        /\ \A r \in Range(LmpSurvivors) :
              \E i \in DOMAIN df_lmp.rows :
                  /\ df_lmp.rows[i]["timestamp_utc"] = to_datetime(r.INTERVALSTARTTIME_GMT)
                  /\ df_lmp.rows[i]["hub"] =
                        IF r.NODE \in DOMAIN CONFIG_nodes THEN CONFIG_nodes[r.NODE]
                        ELSE r.NODE
        /\ \A i \in DOMAIN df_lmp.rows : df_lmp.rows[i]["hub"] # NaN_obj

\* C6: a join whose two inputs share a non-key column name fails; it never
\* returns a table.
C6_CollisionFails ==
    /\ Returned("merge_generation_data") =>
          (df_renewable.columns \cap df_total.columns) \ {"INTERVALSTARTTIME_GMT"} = {}
    /\ Returned("merge_lmp_with_generation") =>
          (LmpAggColumns \cap df_generation.columns) \ {"timestamp_utc"} = {}

FetchSteps == {"fetch_lmp_data", "fetch_renewable_data", "fetch_total_generation_data"}

MergeSteps == {"merge_generation_data", "merge_lmp_with_generation"}

\* C7: a failed fetch is the last call main makes: nothing is retried, no
\* later step runs, nothing is saved and main ends with that error;
\* save_results runs only after the three fetches and the two merges returned.
C7_FetchFailureAborts ==
    /\ \A i \in DOMAIN log :
          (log[i].step \in FetchSteps /\ log[i].raised # "") =>
              /\ i = Len(log)
              /\ pc = "raised"
              /\ error = log[i].raised
              /\ ~files.written
    /\ \A i, j \in DOMAIN log : log[i].step = log[j].step => i = j
    /\ (Ran("save_results") \/ files.written) =>
          \A step \in FetchSteps \cup MergeSteps : Returned(step)
    /\ pc = "raised" => (error # "" /\ ~ENABLED Next)

\* the second fetch failed after the first feed was fetched and processed
C7_Witness ==
    /\ pc = "raised"
    /\ Returned("process_lmp_data")
    /\ log[Len(log)].step = "fetch_renewable_data"
    /\ error = "Downloaded data is empty"

LmpColumnOf(type) == LmpRename(type)

\* C8: a category with no surviving row has no column in the processed LMP
\* table, and merge_lmp_with_generation still returns a merged table.
C8_OptionalColumns ==
    Ran("merge_lmp_with_generation") =>
        \A t \in DOMAIN LmpTypes :
            (\A r \in Range(LmpSurvivors) : r.LMP_TYPE # LmpTypes[t]) =>
                /\ LmpColumnOf(LmpTypes[t]) \notin df_lmp.columns
                /\ Returned("merge_lmp_with_generation")

\* the hub-averaged LMP table exists and shares no timestamp with the
\* generation table
NoCommonTimestamp ==
    /\ Ran("merge_lmp_with_generation")
    /\ LmpAggColumns \subseteq df_lmp.columns
    /\ Times(df_lmp, "timestamp_utc") \cap GenerationTimes = {}

\* C9: with no timestamp in common merge_lmp_with_generation returns a table
\* of zero rows without raising, and main goes on to save_results and ends
\* normally.
C9_EmptyResultNotFatal ==
    NoCommonTimestamp =>
        /\ Returned("merge_lmp_with_generation")
        /\ df_combined.rows = <<>>
        /\ df_combined.columns # {}
        /\ error = ""
        /\ pc \in {"save_results", "print_results", "done"}
        /\ pc # "done" => ENABLED Next
        /\ pc # "save_results" => (files.written /\ files.combined = df_combined)

\* a finished run whose two sides both have rows, none at a common timestamp
C9_Witness ==
    /\ pc = "done"
    /\ NoCommonTimestamp
    /\ LmpAggTimes # {}
    /\ GenerationTimes # {}
    /\ files.combined.rows = <<>>

\* C10: each process function leaves the raw table passed to it as the fetch
\* returned it.
C10_RawTableUnchanged ==
    /\ Returned("process_lmp_data") => df_lmp_raw = fetched.lmp
    /\ Returned("process_renewable_data") => df_renewable_raw = fetched.renewable
    /\ Returned("process_total_generation_data") => df_total_raw = fetched.total

====
